---- MODULE Spec2Model ----
(***************************************************************************)
(* Model of app.py, the Enterprise Wireless Investment Decision Engine:    *)
(* a Streamlit script that is re-run from top to bottom on every widget    *)
(* change.  The state is the widget values and the names the current run   *)
(* has assigned; a widget interaction asks for a re-run, which starts from *)
(* a fresh namespace, and one action is the whole run of the script.       *)
(*                                                                         *)
(* Numbers.  Every figure the script computes is a finite decimal (all     *)
(* factors are integers or decimals such as 1.08, 0.6, pct/100), so the    *)
(* model computes them exactly, as decimals of unbounded size:             *)
(*     [neg |-> sign, m |-> magnitude, e |-> decimal places]               *)
(* with the magnitude a little-endian sequence of base-10000 limbs.  The   *)
(* quotients whose value is not a finite decimal (percent_change, the      *)
(* per-year, per-sqft and per-device figures) are kept as fractions.       *)
(* Rounding of the binary floating point of the Python run time is not     *)
(* modelled.                                                               *)
(***************************************************************************)
EXTENDS Integers, Sequences, FiniteSets, TLC

\* ------------------------------------------------------------ magnitudes
RECURSIVE BigFromInt(_)
BigFromInt(n) ==
    IF n = 0 THEN <<>> ELSE <<n % 10000>> \o BigFromInt(n \div 10000)

RECURSIVE BigNorm(_)
BigNorm(a) ==
    IF a = <<>> THEN <<>>
    ELSE IF a[Len(a)] = 0 THEN BigNorm(SubSeq(a, 1, Len(a) - 1))
    ELSE a

RECURSIVE BigAddC(_, _, _)
BigAddC(a, b, c) ==
    IF a = <<>> /\ c = 0 THEN b
    ELSE IF b = <<>> /\ c = 0 THEN a
    ELSE IF a = <<>> /\ b = <<>> THEN <<c>>
    ELSE LET x == IF a = <<>> THEN 0 ELSE Head(a)
             y == IF b = <<>> THEN 0 ELSE Head(b)
             t == x + y + c
         IN  <<t % 10000>> \o BigAddC(IF a = <<>> THEN a ELSE Tail(a),
                                     IF b = <<>> THEN b ELSE Tail(b),
                                     t \div 10000)

BigAdd(a, b) == BigAddC(a, b, 0)

\* a - b for a >= b
RECURSIVE BigSubC(_, _, _)
BigSubC(a, b, c) ==
    IF a = <<>> THEN <<>>
    ELSE LET y == IF b = <<>> THEN 0 ELSE Head(b)
             t == Head(a) - y - c
         IN  <<(t + 10000) % 10000>> \o BigSubC(Tail(a),
                                              IF b = <<>> THEN b ELSE Tail(b),
                                              IF t < 0 THEN 1 ELSE 0)

BigSub(a, b) == BigNorm(BigSubC(a, b, 0))

\* a * k for one limb k
RECURSIVE BigMulC(_, _, _)
BigMulC(a, k, c) ==
    IF a = <<>> THEN (IF c = 0 THEN <<>> ELSE <<c>>)
    ELSE LET t == Head(a) * k + c
         IN  <<t % 10000>> \o BigMulC(Tail(a), k, t \div 10000)

\* a * b, limb by limb of b
RECURSIVE BigMulBy(_, _)
BigMulBy(a, b) ==
    IF b = <<>> THEN <<>>
    ELSE IF Tail(b) = <<>> THEN BigMulC(a, Head(b), 0)
    ELSE BigAdd(IF Head(b) = 0 THEN <<>> ELSE BigMulC(a, Head(b), 0),
                <<0>> \o BigMulBy(a, Tail(b)))

BigMul(a, b) ==
    IF a = <<>> \/ b = <<>> THEN <<>>
    ELSE IF Len(a) >= Len(b) THEN BigMulBy(a, b) ELSE BigMulBy(b, a)

\* -1, 0, 1 as a < b, a = b, a > b (magnitudes without leading zero limbs)
RECURSIVE BigCmpAt(_, _, _)
BigCmpAt(a, b, i) ==
    IF i = 0 THEN 0
    ELSE IF a[i] < b[i] THEN -1
    ELSE IF a[i] > b[i] THEN 1
    ELSE BigCmpAt(a, b, i - 1)

BigCmp(a, b) ==
    IF Len(a) < Len(b) THEN -1
    ELSE IF Len(a) > Len(b) THEN 1
    ELSE BigCmpAt(a, b, Len(a))

\* a * 10^n
RECURSIVE BigShift10(_, _)
BigShift10(a, n) ==
    IF n = 0 \/ a = <<>> THEN a
    ELSE IF n >= 4 THEN BigShift10(<<0>> \o a, n - 4)
    ELSE BigMulC(a, CASE n = 1 -> 10 [] n = 2 -> 100 [] n = 3 -> 1000, 0)

\* a \div k and a % k for 0 < k <= 1000, from the top limb down
RECURSIVE BigDivAt(_, _, _, _)
BigDivAt(a, k, i, r) ==
    IF i = 0 THEN [q |-> <<>>, r |-> r]
    ELSE LET t == r * 10000 + a[i]
             rest == BigDivAt(a, k, i - 1, t % k)
         IN  [q |-> rest.q \o <<t \div k>>, r |-> rest.r]

\* a \div 10^n, and whether a remainder is left
RECURSIVE BigDivPow10(_, _)
BigDivPow10(a, n) ==
    IF n = 0 \/ a = <<>> THEN [q |-> a, rem |-> FALSE]
    ELSE IF n >= 4
    THEN LET d == BigDivPow10(Tail(a), n - 4)
         IN  [q |-> d.q, rem |-> d.rem \/ Head(a) # 0]
    ELSE LET d == BigDivAt(a, CASE n = 1 -> 10 [] n = 2 -> 100 [] n = 3 -> 1000,
                           Len(a), 0)
         IN  [q |-> BigNorm(d.q), rem |-> d.r # 0]

\* the integer a magnitude below 2^31 stands for
RECURSIVE BigToInt(_)
BigToInt(a) == IF a = <<>> THEN 0 ELSE Head(a) + 10000 * BigToInt(Tail(a))

\* -------------------------------------------------------------- decimals
Dec(n, e) == [neg |-> n < 0, m |-> BigFromInt(IF n < 0 THEN -n ELSE n), e |-> e]
DecInt(n) == Dec(n, 0)

DecIsZero(x) == x.m = <<>>

\* the magnitude of x at e decimal places (e >= x.e)
DecAt(x, e) == BigShift10(x.m, e - x.e)

DecMaxE(x, y) == IF x.e >= y.e THEN x.e ELSE y.e

DecNeg(x) == [x EXCEPT !.neg = ~x.neg /\ x.m # <<>>]

DecAdd(x, y) ==
    LET e == DecMaxE(x, y)
        a == DecAt(x, e)
        b == DecAt(y, e)
        c == BigCmp(a, b)
    IN  IF x.neg = y.neg THEN [neg |-> x.neg, m |-> BigAdd(a, b), e |-> e]
        ELSE IF c = 0 THEN [neg |-> FALSE, m |-> <<>>, e |-> e]
        ELSE IF c > 0 THEN [neg |-> x.neg, m |-> BigSub(a, b), e |-> e]
        ELSE [neg |-> y.neg, m |-> BigSub(b, a), e |-> e]

DecSub(x, y) == DecAdd(x, DecNeg(y))

DecMul(x, y) ==
    LET p == BigMul(x.m, y.m)
    IN  [neg |-> (x.neg # y.neg) /\ p # <<>>, m |-> p, e |-> x.e + y.e]

\* -1, 0, 1 as x < y, x = y, x > y
DecCmp(x, y) ==
    LET e == DecMaxE(x, y)
        c == BigCmp(DecAt(x, e), DecAt(y, e))
    IN  IF DecIsZero(x) /\ DecIsZero(y) THEN 0
        ELSE IF x.neg /\ ~y.neg THEN -1
        ELSE IF ~x.neg /\ y.neg THEN 1
        ELSE IF x.neg THEN -c ELSE c

DecEq(x, y) == DecCmp(x, y) = 0
DecLeq(x, y) == DecCmp(x, y) <= 0
DecLt(x, y) == DecCmp(x, y) < 0

\* math.ceil and math.floor of a decimal x >= 0, as integers
DecFloor(x) == BigToInt(BigDivPow10(x.m, x.e).q)

DecCeil(x) ==
    LET d == BigDivPow10(x.m, x.e)
    IN  BigToInt(d.q) + (IF d.rem THEN 1 ELSE 0)

\* a fraction num/den that is not evaluated further
Frac(num, den) == [num |-> num, den |-> den]

\* ----------------------------------------------------- errors of a run
\* what a raising call gives instead of a value
KeyError == [raised |-> "KeyError"]
ZeroDivisionError == [raised |-> "ZeroDivisionError"]
\* a name the run never assigned (the script stopped before it)
Unset == [unset |-> TRUE]
\* the exception that ended the run, if one did
NoError == "none"

\* x / y of Python: a fraction, or ZeroDivisionError
TrueDiv(x, y) == IF DecIsZero(y) THEN ZeroDivisionError ELSE Frac(x, y)

\* x / d for the divisors the script uses, whose quotient is a finite decimal
DecDivInt(x, d) ==
    CASE d = 100   -> [x EXCEPT !.e = @ + 2]
      [] d = 2500  -> [DecMul(x, DecInt(4)) EXCEPT !.e = @ + 4]
      [] d = 10000 -> [x EXCEPT !.e = @ + 4]

\* x ** n for an integer n >= 0
RECURSIVE DecPow(_, _)
DecPow(x, n) == IF n = 0 THEN DecInt(1) ELSE DecMul(x, DecPow(x, n - 1))

\* --------------------------------------------------- venue base profiles
VenueTypes == {"Small Venue", "Medium Venue", "Large Venue"}

VENUE_PROFILES ==
    [v \in VenueTypes |->
        CASE v = "Small Venue"  ->
               [sqft |-> 100000, growth |-> 5, coverage |-> "Indoor Only",
                latency |-> 20, sla |-> "99.9%"]
          [] v = "Medium Venue" ->
               [sqft |-> 500000, growth |-> 8, coverage |-> "Indoor + Outdoor",
                latency |-> 15, sla |-> "99.99%"]
          [] v = "Large Venue"  ->
               [sqft |-> 2000000, growth |-> 15, coverage |-> "Indoor + Outdoor",
                latency |-> 8, sla |-> "99.999%"]]

\* ------------------------------------------------------------ multipliers
SlaKeys == {"99.9%", "99.99%", "99.999%"}
CoverageKeys == {"Indoor Only", "Outdoor Only", "Indoor + Outdoor"}

\* sla_multiplier giving the availability itself, a factor below 1
sla_multiplier_availability(k) ==
    CASE k = "99.9%"   -> Dec(999, 3)
      [] k = "99.99%"  -> Dec(9999, 4)
      [] k = "99.999%" -> Dec(99999, 5)
      [] OTHER         -> KeyError

sla_multiplier(k) ==
    CASE k = "99.9%"   -> Dec(10, 1)
      [] k = "99.99%"  -> Dec(108, 2)
      [] k = "99.999%" -> Dec(115, 2)
      [] OTHER         -> KeyError

\* growth_multiplier with * for **
growth_multiplier_times(g, y) ==
    DecMul(DecAdd(DecInt(1), DecDivInt(DecInt(g), 100)), DecInt(y))

growth_multiplier(g, y) == DecPow(DecAdd(DecInt(1), DecDivInt(DecInt(g), 100)), y)

coverage_multiplier(c) ==
    IF c = "Indoor Only" THEN Dec(10, 1)
    ELSE IF c = "Outdoor Only" THEN Dec(125, 2)
    ELSE Dec(115, 2)

percent_change(base, compare) ==
    LET q == TrueDiv(DecSub(compare, base), base)
    IN  IF q = ZeroDivisionError THEN q
        ELSE Frac(DecMul(q.num, DecInt(100)), q.den)

\* ------------------------------------------------ the widgets' domains
\* the bounds of the widgets (number_input and slider minima and maxima)
MinSqft == 1000
MinYears == 3
HorizonMax == 10
MaxGrowth == 30
\* the latency under which Wi-Fi is penalised
LatencyLimit == 10

\* the horizons the sessions of the model use: MinYears..MaxYears
MaxYears == 5

\* The values the sessions of the model give each widget: its minimum or
\* default, the values the venue profiles seed, and the values around the
\* latency limit.
SqftValues == {MinSqft} \cup {VENUE_PROFILES[v].sqft : v \in VenueTypes}
YearsValues == MinYears..MaxYears
GrowthValues == {0} \cup {VENUE_PROFILES[v].growth : v \in VenueTypes}
LatencyValues == {LatencyLimit - 1, LatencyLimit}
                     \cup {VENUE_PROFILES[v].latency : v \in VenueTypes}
WifiApCostValues == {500, 1200}
WifiMaintValues == {18, 30}
P5gCellCostValues == {2000, 5000}
P5gCoreCostValues == {20000, 80000}
P5gMaintValues == {5, 15}

VARIABLES
    \* the widgets of the session (the venue selectbox only seeds the
    \* others: its own value is read nowhere else and is not kept)
    sqft, years, coverage, growth, latency, sla,
    wifi_ap_cost, wifi_maint, p5g_cell_cost, p5g_core_cost, p5g_maint,
    \* "rerun": a run of the script is due; "done": the page is rendered
    script,
    \* the names the current run of the script has assigned
    ns,
    \* the last direct call of a multiplier function, and what it gave
    call

widgets == <<sqft, years, coverage, growth, latency, sla,
             wifi_ap_cost, wifi_maint, p5g_cell_cost, p5g_core_cost, p5g_maint>>

vars == <<widgets, script, ns, call>>

\* ------------------------------------------------------ the script's run
\* The names of the script before line 93: the widget values, with the two
\* maintenance sliders divided by 100, and nothing computed yet.
Globals(w) ==
    [sqft |-> w.sqft, years |-> w.years, coverage |-> w.coverage,
     growth |-> w.growth, latency |-> w.latency, sla |-> w.sla,
     wifi_ap_cost |-> w.wifi_ap_cost,
     wifi_maint |-> DecDivInt(DecInt(w.wifi_maint), 100),
     p5g_cell_cost |-> w.p5g_cell_cost, p5g_core_cost |-> w.p5g_core_cost,
     p5g_maint |-> DecDivInt(DecInt(w.p5g_maint), 100),
     ran |-> TRUE,
     wifi_ap_count |-> Unset, wifi_capex |-> Unset, wifi_opex |-> Unset,
     wifi_total |-> Unset,
     p5g_cell_count |-> Unset, p5g_capex |-> Unset, p5g_opex |-> Unset,
     p5g_total |-> Unset,
     hyb_capex |-> Unset, hyb_opex |-> Unset, hyb_total |-> Unset,
     p5g_vs_wifi |-> Unset, hyb_vs_wifi |-> Unset,
     annual_wifi |-> Unset, annual_p5g |-> Unset, annual_hyb |-> Unset,
     wifi_per_sqft |-> Unset, p5g_per_sqft |-> Unset, hyb_per_sqft |-> Unset,
     wifi_trend |-> Unset, p5g_trend |-> Unset, hyb_trend |-> Unset,
     device_estimate |-> Unset, wifi_per_device |-> Unset,
     p5g_per_device |-> Unset, hyb_per_device |-> Unset,
     error |-> NoError]

\* (capex + opex) * sla_multiplier(sla) * growth_multiplier(growth, years)
RiskAdjusted(g, capex, opex) ==
    DecMul(DecMul(DecAdd(capex, opex), sla_multiplier(g.sla)),
           growth_multiplier(g.growth, g.years))

\* WifiCost with the penalty at latency <= 10
WifiCost_PenaltyAtLimit(g) ==
    LET count == DecCeil(DecMul(DecDivInt(DecInt(g.sqft), 2500),
                                coverage_multiplier(g.coverage)))
        capex == DecMul(DecInt(count), DecInt(g.wifi_ap_cost))
        opex  == DecMul(DecMul(capex, g.wifi_maint), DecInt(g.years))
        total == RiskAdjusted(g, capex, opex)
    IN  [g EXCEPT !.wifi_ap_count = count, !.wifi_capex = capex,
                  !.wifi_opex = opex,
                  !.wifi_total = IF g.latency <= LatencyLimit
                                 THEN DecMul(total, Dec(110, 2))
                                 ELSE total]

\* WifiCost with math.floor for math.ceil
WifiCost_Floor(g) ==
    LET count == DecFloor(DecMul(DecDivInt(DecInt(g.sqft), 2500),
                                 coverage_multiplier(g.coverage)))
        capex == DecMul(DecInt(count), DecInt(g.wifi_ap_cost))
        opex  == DecMul(DecMul(capex, g.wifi_maint), DecInt(g.years))
        total == RiskAdjusted(g, capex, opex)
    IN  [g EXCEPT !.wifi_ap_count = count, !.wifi_capex = capex,
                  !.wifi_opex = opex,
                  !.wifi_total = IF g.latency < LatencyLimit
                                 THEN DecMul(total, Dec(110, 2))
                                 ELSE total]

\* WifiCost with the maintenance compounded: capex * ((1 + maint)**years - 1)
WifiCost_CompoundOpex(g) ==
    LET count == DecCeil(DecMul(DecDivInt(DecInt(g.sqft), 2500),
                                coverage_multiplier(g.coverage)))
        capex == DecMul(DecInt(count), DecInt(g.wifi_ap_cost))
        opex  == DecMul(capex,
                        DecSub(DecPow(DecAdd(DecInt(1), g.wifi_maint), g.years),
                               DecInt(1)))
        total == RiskAdjusted(g, capex, opex)
    IN  [g EXCEPT !.wifi_ap_count = count, !.wifi_capex = capex,
                  !.wifi_opex = opex,
                  !.wifi_total = IF g.latency < LatencyLimit
                                 THEN DecMul(total, Dec(110, 2))
                                 ELSE total]

WifiCost(g) ==
    LET count == DecCeil(DecMul(DecDivInt(DecInt(g.sqft), 2500),
                                coverage_multiplier(g.coverage)))
        capex == DecMul(DecInt(count), DecInt(g.wifi_ap_cost))
        opex  == DecMul(DecMul(capex, g.wifi_maint), DecInt(g.years))
        total == RiskAdjusted(g, capex, opex)
    IN  [g EXCEPT !.wifi_ap_count = count, !.wifi_capex = capex,
                  !.wifi_opex = opex,
                  !.wifi_total = IF g.latency < LatencyLimit
                                 THEN DecMul(total, Dec(110, 2))
                                 ELSE total]

P5gCost(g) ==
    LET count == DecCeil(DecMul(DecDivInt(DecInt(g.sqft), 10000),
                                coverage_multiplier(g.coverage)))
        capex == DecAdd(DecMul(DecInt(count), DecInt(g.p5g_cell_cost)),
                        DecInt(g.p5g_core_cost))
        opex  == DecMul(DecMul(capex, g.p5g_maint), DecInt(g.years))
    IN  [g EXCEPT !.p5g_cell_count = count, !.p5g_capex = capex,
                  !.p5g_opex = opex,
                  !.p5g_total = RiskAdjusted(g, capex, opex)]

\* HybridCost with an even split, 0.5 of each
HybridCost_EvenSplit(g) ==
    LET capex == DecAdd(DecMul(g.wifi_capex, Dec(5, 1)),
                        DecMul(g.p5g_capex, Dec(5, 1)))
        opex  == DecAdd(DecMul(g.wifi_opex, Dec(5, 1)),
                        DecMul(g.p5g_opex, Dec(5, 1)))
    IN  [g EXCEPT !.hyb_capex = capex, !.hyb_opex = opex,
                  !.hyb_total = RiskAdjusted(g, capex, opex)]

\* HybridCost with the total blended from the two totals
HybridCost_FromTotals(g) ==
    LET capex == DecAdd(DecMul(g.wifi_capex, Dec(6, 1)),
                        DecMul(g.p5g_capex, Dec(6, 1)))
        opex  == DecAdd(DecMul(g.wifi_opex, Dec(6, 1)),
                        DecMul(g.p5g_opex, Dec(6, 1)))
    IN  [g EXCEPT !.hyb_capex = capex, !.hyb_opex = opex,
                  !.hyb_total = DecAdd(DecMul(g.wifi_total, Dec(6, 1)),
                                       DecMul(g.p5g_total, Dec(6, 1)))]

\* HybridCost with the growth multiplier left out of the total
HybridCost_NoGrowth(g) ==
    LET capex == DecAdd(DecMul(g.wifi_capex, Dec(6, 1)),
                        DecMul(g.p5g_capex, Dec(6, 1)))
        opex  == DecAdd(DecMul(g.wifi_opex, Dec(6, 1)),
                        DecMul(g.p5g_opex, Dec(6, 1)))
    IN  [g EXCEPT !.hyb_capex = capex, !.hyb_opex = opex,
                  !.hyb_total = DecMul(DecAdd(capex, opex),
                                       sla_multiplier(g.sla))]

HybridCost(g) ==
    LET capex == DecAdd(DecMul(g.wifi_capex, Dec(6, 1)),
                        DecMul(g.p5g_capex, Dec(6, 1)))
        opex  == DecAdd(DecMul(g.wifi_opex, Dec(6, 1)),
                        DecMul(g.p5g_opex, Dec(6, 1)))
    IN  [g EXCEPT !.hyb_capex = capex, !.hyb_opex = opex,
                  !.hyb_total = RiskAdjusted(g, capex, opex)]

\* The value the i-th statement of a section assigns, when the first
\* statement that raises is the k-th: nothing from there on is assigned.
Assigned(vals, i, k) == IF i < k THEN vals[i] ELSE Unset

FirstError(vals) ==
    IF \E i \in 1..Len(vals) : vals[i] = ZeroDivisionError
    THEN CHOOSE i \in 1..Len(vals) :
            /\ vals[i] = ZeroDivisionError
            /\ \A j \in 1..(i - 1) : vals[j] # ZeroDivisionError
    ELSE Len(vals) + 1

Positioning(g) ==
    LET vals == << percent_change(g.wifi_total, g.p5g_total),
                   percent_change(g.wifi_total, g.hyb_total),
                   TrueDiv(g.wifi_total, DecInt(g.years)),
                   TrueDiv(g.p5g_total, DecInt(g.years)),
                   TrueDiv(g.hyb_total, DecInt(g.years)),
                   TrueDiv(g.wifi_total, DecInt(g.sqft)),
                   TrueDiv(g.p5g_total, DecInt(g.sqft)),
                   TrueDiv(g.hyb_total, DecInt(g.sqft)) >>
        k == FirstError(vals)
    IN  [g EXCEPT !.p5g_vs_wifi = Assigned(vals, 1, k),
                  !.hyb_vs_wifi = Assigned(vals, 2, k),
                  !.annual_wifi = Assigned(vals, 3, k),
                  !.annual_p5g = Assigned(vals, 4, k),
                  !.annual_hyb = Assigned(vals, 5, k),
                  !.wifi_per_sqft = Assigned(vals, 6, k),
                  !.p5g_per_sqft = Assigned(vals, 7, k),
                  !.hyb_per_sqft = Assigned(vals, 8, k),
                  !.error = IF k <= Len(vals) THEN "ZeroDivisionError" ELSE NoError]

\* capex + capex * maint * y
Cumulative(capex, maint, y) ==
    DecAdd(capex, DecMul(DecMul(capex, maint), DecInt(y)))

Trend(g) ==
    IF g.error # NoError THEN g
    ELSE [g EXCEPT
            !.wifi_trend = [y \in 1..g.years |->
                              Cumulative(g.wifi_capex, g.wifi_maint, y)],
            !.p5g_trend = [y \in 1..g.years |->
                              Cumulative(g.p5g_capex, g.p5g_maint, y)],
            !.hyb_trend = [y \in 1..g.years |->
                              Cumulative(g.hyb_capex, g.wifi_maint, y)]]

NormalizedCost(g) ==
    IF g.error # NoError THEN g
    ELSE LET estimate == DecMul(DecInt(g.sqft), Dec(1, 2))
             vals == << TrueDiv(g.wifi_total, estimate),
                        TrueDiv(g.p5g_total, estimate),
                        TrueDiv(g.hyb_total, estimate) >>
             k == FirstError(vals)
         IN  [g EXCEPT !.device_estimate = estimate,
                       !.wifi_per_device = Assigned(vals, 1, k),
                       !.p5g_per_device = Assigned(vals, 2, k),
                       !.hyb_per_device = Assigned(vals, 3, k),
                       !.error = IF k <= Len(vals) THEN "ZeroDivisionError"
                                 ELSE NoError]

\* one run of the script, top to bottom
Script(w) ==
    NormalizedCost(Trend(Positioning(HybridCost(P5gCost(WifiCost(Globals(w)))))))

Widgets ==
    [sqft |-> sqft, years |-> years,
     coverage |-> coverage, growth |-> growth, latency |-> latency,
     sla |-> sla, wifi_ap_cost |-> wifi_ap_cost, wifi_maint |-> wifi_maint,
     p5g_cell_cost |-> p5g_cell_cost, p5g_core_cost |-> p5g_core_cost,
     p5g_maint |-> p5g_maint]

\* ------------------------------------------------------------- the app
NoCall == [fn |-> "none", args |-> <<>>, ret |-> Unset]

\* the script's namespace before a run has assigned anything
Fresh == [ran |-> FALSE]

\* The session opens with every widget at its default (the venue the first
\* option, its profile seeding five widgets) and the first run due.
Init ==
    /\ sqft = VENUE_PROFILES["Small Venue"].sqft
    /\ years = 5
    /\ coverage = VENUE_PROFILES["Small Venue"].coverage
    /\ growth = VENUE_PROFILES["Small Venue"].growth
    /\ latency = VENUE_PROFILES["Small Venue"].latency
    /\ sla = VENUE_PROFILES["Small Venue"].sla
    /\ wifi_ap_cost = 1200
    /\ wifi_maint = 18
    /\ p5g_cell_cost = 5000
    /\ p5g_core_cost = 80000
    /\ p5g_maint = 15
    /\ script = "rerun"
    /\ ns = Fresh
    /\ call = NoCall

\* the run of the script, top to bottom, in a fresh namespace
RunScript ==
    /\ script = "rerun"
    /\ script' = "done"
    /\ ns' = Script(Widgets)
    /\ UNCHANGED <<widgets, call>>

\* a widget change asks for a re-run, which starts from a fresh namespace
Rerun ==
    /\ script' = "rerun"
    /\ ns' = Fresh
    /\ call' = call

\* The venue selectbox: the script builds five widgets with the profile's
\* values as their defaults, and a widget whose default changes is a new
\* widget, at that default.
SelectVenue(v) ==
    /\ script = "done"
    /\ sqft' = VENUE_PROFILES[v].sqft
    /\ coverage' = VENUE_PROFILES[v].coverage
    /\ growth' = VENUE_PROFILES[v].growth
    /\ latency' = VENUE_PROFILES[v].latency
    /\ sla' = VENUE_PROFILES[v].sla
    /\ UNCHANGED <<years, wifi_ap_cost, wifi_maint, p5g_cell_cost,
                   p5g_core_cost, p5g_maint>>
    /\ Rerun

SetSqft(v) ==
    /\ script = "done"
    /\ v # sqft
    /\ sqft' = v
    /\ UNCHANGED <<years, coverage, growth, latency, sla,
                   wifi_ap_cost, wifi_maint, p5g_cell_cost, p5g_core_cost,
                   p5g_maint>>
    /\ Rerun

SetYears(v) ==
    /\ script = "done"
    /\ v # years
    /\ years' = v
    /\ UNCHANGED <<sqft, coverage, growth, latency, sla,
                   wifi_ap_cost, wifi_maint, p5g_cell_cost, p5g_core_cost,
                   p5g_maint>>
    /\ Rerun

SetCoverage(v) ==
    /\ script = "done"
    /\ v # coverage
    /\ coverage' = v
    /\ UNCHANGED <<sqft, years, growth, latency, sla, wifi_ap_cost,
                   wifi_maint, p5g_cell_cost, p5g_core_cost, p5g_maint>>
    /\ Rerun

SetGrowth(v) ==
    /\ script = "done"
    /\ v # growth
    /\ growth' = v
    /\ UNCHANGED <<sqft, years, coverage, latency, sla,
                   wifi_ap_cost, wifi_maint, p5g_cell_cost, p5g_core_cost,
                   p5g_maint>>
    /\ Rerun

SetLatency(v) ==
    /\ script = "done"
    /\ v # latency
    /\ latency' = v
    /\ UNCHANGED <<sqft, years, coverage, growth, sla,
                   wifi_ap_cost, wifi_maint, p5g_cell_cost, p5g_core_cost,
                   p5g_maint>>
    /\ Rerun

SetSla(v) ==
    /\ script = "done"
    /\ v # sla
    /\ sla' = v
    /\ UNCHANGED <<sqft, years, coverage, growth, latency,
                   wifi_ap_cost, wifi_maint, p5g_cell_cost, p5g_core_cost,
                   p5g_maint>>
    /\ Rerun

SetWifiApCost(v) ==
    /\ script = "done"
    /\ v # wifi_ap_cost
    /\ wifi_ap_cost' = v
    /\ UNCHANGED <<sqft, years, coverage, growth, latency, sla,
                   wifi_maint, p5g_cell_cost, p5g_core_cost, p5g_maint>>
    /\ Rerun

SetWifiMaint(v) ==
    /\ script = "done"
    /\ v # wifi_maint
    /\ wifi_maint' = v
    /\ UNCHANGED <<sqft, years, coverage, growth, latency, sla,
                   wifi_ap_cost, p5g_cell_cost, p5g_core_cost, p5g_maint>>
    /\ Rerun

SetP5gCellCost(v) ==
    /\ script = "done"
    /\ v # p5g_cell_cost
    /\ p5g_cell_cost' = v
    /\ UNCHANGED <<sqft, years, coverage, growth, latency, sla,
                   wifi_ap_cost, wifi_maint, p5g_core_cost, p5g_maint>>
    /\ Rerun

SetP5gCoreCost(v) ==
    /\ script = "done"
    /\ v # p5g_core_cost
    /\ p5g_core_cost' = v
    /\ UNCHANGED <<sqft, years, coverage, growth, latency, sla,
                   wifi_ap_cost, wifi_maint, p5g_cell_cost, p5g_maint>>
    /\ Rerun

SetP5gMaint(v) ==
    /\ script = "done"
    /\ v # p5g_maint
    /\ p5g_maint' = v
    /\ UNCHANGED <<sqft, years, coverage, growth, latency, sla,
                   wifi_ap_cost, wifi_maint, p5g_cell_cost, p5g_core_cost>>
    /\ Rerun

Next ==
    \/ RunScript
    \/ \E v \in VenueTypes : SelectVenue(v)
    \/ \E v \in SqftValues : SetSqft(v)
    \/ \E v \in YearsValues : SetYears(v)
    \/ \E v \in CoverageKeys : SetCoverage(v)
    \/ \E v \in GrowthValues : SetGrowth(v)
    \/ \E v \in LatencyValues : SetLatency(v)
    \/ \E v \in SlaKeys : SetSla(v)
    \/ \E v \in WifiApCostValues : SetWifiApCost(v)
    \/ \E v \in WifiMaintValues : SetWifiMaint(v)
    \/ \E v \in P5gCellCostValues : SetP5gCellCost(v)
    \/ \E v \in P5gCoreCostValues : SetP5gCoreCost(v)
    \/ \E v \in P5gMaintValues : SetP5gMaint(v)

Spec == Init /\ [][Next]_vars

\* ------------------------------------- the multiplier functions, called
\* The three functions of lines 75-87 called directly, with arguments from
\* inside and outside their recognised sets.
OtherKeys == {"", "99%", "100%", "99.9", "Indoor", "indoor only", "Underground"}
ArgKeys == SlaKeys \cup CoverageKeys \cup OtherKeys

CallOf(fn, args, ret) == [fn |-> fn, args |-> args, ret |-> ret]

CallSlaMultiplier(k) ==
    /\ call' = CallOf("sla_multiplier", <<k>>, sla_multiplier(k))
    /\ UNCHANGED <<widgets, script, ns>>

CallCoverageMultiplier(k) ==
    /\ call' = CallOf("coverage_multiplier", <<k>>, coverage_multiplier(k))
    /\ UNCHANGED <<widgets, script, ns>>

CallGrowthMultiplier(g, y) ==
    /\ call' = CallOf("growth_multiplier", <<g, y>>, growth_multiplier(g, y))
    /\ UNCHANGED <<widgets, script, ns>>

NextFn ==
    \/ \E k \in ArgKeys : CallSlaMultiplier(k)
    \/ \E k \in ArgKeys : CallCoverageMultiplier(k)
    \/ \E g \in 0..MaxGrowth, y \in 0..HorizonMax : CallGrowthMultiplier(g, y)

SpecFn == Init /\ [][NextFn]_vars

\* ================================================================ claims
Done == script = "done"

One == DecInt(1)

\* the smaller of two decimals
DecMin(x, y) == IF DecLeq(x, y) THEN x ELSE y

\* the run of the cost sections with the latency widget at l, all else as is
CostsAt(l) == HybridCost(P5gCost(WifiCost(Globals([Widgets EXCEPT !.latency = l]))))

\* ---------------------------------------------------------------- C1
\* C1: the Wi-Fi total of a run with latency below 10 is exactly 1.10 times
\* the Wi-Fi total of the run with latency 10 and all else equal, and the
\* total of a run with latency 10 or more is equal to it: the factor is
\* applied if and only if latency < 10, and once.  In particular the run
\* with latency 9 gives 1.10 times the run with latency 10.
C1_LatencyPenalty ==
    Done =>
        LET at10 == WifiCost(Globals([Widgets EXCEPT !.latency = 10])).wifi_total
        IN  /\ latency < 10 => DecEq(ns.wifi_total, DecMul(Dec(110, 2), at10))
            /\ latency >= 10 => DecEq(ns.wifi_total, at10)
            /\ latency = 10 =>
                 DecEq(DecMul(Dec(110, 2), ns.wifi_total),
                       WifiCost(Globals([Widgets EXCEPT !.latency = 9])).wifi_total)

C1_Witness ==
    /\ Done
    /\ latency = 9
    /\ DecLt(WifiCost(Globals([Widgets EXCEPT !.latency = 10])).wifi_total,
             ns.wifi_total)

\* ---------------------------------------------------------------- C2
\* C2: a multiplier lookup with a key outside its recognised set fails with
\* an error instead of returning a number, for sla_multiplier and for
\* coverage_multiplier alike.
C2_LookupsFailFast ==
    /\ (call.fn = "sla_multiplier" /\ call.args[1] \notin SlaKeys)
          => call.ret = KeyError
    /\ (call.fn = "coverage_multiplier" /\ call.args[1] \notin CoverageKeys)
          => call.ret = KeyError

\* ---------------------------------------------------------------- C3
\* C3: in every run the Hybrid capex is 0.6 * (Wi-Fi capex + 5G capex), the
\* Hybrid opex is 0.6 * (Wi-Fi opex + 5G opex), and the Hybrid total is
\* (Hybrid capex + Hybrid opex) * slaMultiplier * growthMultiplier.
C3_HybridBlend ==
    Done =>
        /\ DecEq(ns.hyb_capex,
                 DecMul(Dec(6, 1), DecAdd(ns.wifi_capex, ns.p5g_capex)))
        /\ DecEq(ns.hyb_opex,
                 DecMul(Dec(6, 1), DecAdd(ns.wifi_opex, ns.p5g_opex)))
        /\ DecEq(ns.hyb_total,
                 DecMul(DecAdd(ns.hyb_capex, ns.hyb_opex),
                        DecMul(sla_multiplier(sla),
                               growth_multiplier(growth, years))))

C3_Witness ==
    /\ Done
    /\ sla = "99.99%" /\ growth = 8
    /\ ~DecEq(ns.wifi_capex, ns.p5g_capex)
    /\ DecLt(DecAdd(ns.hyb_capex, ns.hyb_opex), ns.hyb_total)

\* ---------------------------------------------------------------- C4
\* C4: in every run, for each of the three architectures, the risk-adjusted
\* total is at least the architecture's capex + opex.
C4_TotalAtLeastCost ==
    Done =>
        /\ DecLeq(DecAdd(ns.wifi_capex, ns.wifi_opex), ns.wifi_total)
        /\ DecLeq(DecAdd(ns.p5g_capex, ns.p5g_opex), ns.p5g_total)
        /\ DecLeq(DecAdd(ns.hyb_capex, ns.hyb_opex), ns.hyb_total)

\* a run where no multiplier exceeds 1 and the totals equal capex + opex
C4_Witness ==
    /\ Done
    /\ sla = "99.9%" /\ growth = 0 /\ latency >= 10
    /\ DecEq(DecAdd(ns.wifi_capex, ns.wifi_opex), ns.wifi_total)
    /\ DecEq(DecAdd(ns.p5g_capex, ns.p5g_opex), ns.p5g_total)
    /\ DecEq(DecAdd(ns.hyb_capex, ns.hyb_opex), ns.hyb_total)

\* ---------------------------------------------------------------- C5
\* C5: the latency reaches only the Wi-Fi total: the 5G capex, opex and total
\* and the Hybrid capex, opex and total of a run are those of the run with
\* all else equal and the latency on the other side of the limit (9 for a
\* run at 10 or more, 10 for a run under 10), so those of any two runs that
\* differ in latency alone are equal.
C5_LatencyOnlyWifi ==
    Done =>
            LET other == CostsAt(IF latency < LatencyLimit THEN LatencyLimit
                                 ELSE LatencyLimit - 1)
            IN  /\ DecEq(ns.p5g_capex, other.p5g_capex)
                /\ DecEq(ns.p5g_opex, other.p5g_opex)
                /\ DecEq(ns.p5g_total, other.p5g_total)
                /\ DecEq(ns.hyb_capex, other.hyb_capex)
                /\ DecEq(ns.hyb_opex, other.hyb_opex)
                /\ DecEq(ns.hyb_total, other.hyb_total)

\* a run whose Wi-Fi total carries the penalty, blended into a Hybrid
C5_Witness ==
    /\ Done
    /\ latency < LatencyLimit
    /\ ~DecEq(ns.wifi_total, CostsAt(LatencyLimit).wifi_total)
    /\ DecEq(ns.hyb_total, CostsAt(LatencyLimit).hyb_total)

\* ---------------------------------------------------------------- C6
\* C6: in every run every division has a non-zero denominator: the base of
\* percent_change (the Wi-Fi total) is positive, and years, sqft and the
\* device estimate are not zero; no run ends in ZeroDivisionError.
C6_NoDivisionByZero ==
    Done =>
        /\ ns.error = NoError
        /\ DecLt(DecInt(0), ns.wifi_total)
        /\ years # 0 /\ sqft # 0
        /\ ~DecIsZero(ns.device_estimate)
        /\ \A q \in {ns.p5g_vs_wifi, ns.hyb_vs_wifi,
                     ns.annual_wifi, ns.annual_p5g, ns.annual_hyb,
                     ns.wifi_per_sqft, ns.p5g_per_sqft, ns.hyb_per_sqft,
                     ns.wifi_per_device, ns.p5g_per_device, ns.hyb_per_device} :
              q # ZeroDivisionError /\ q # Unset

\* the smallest facility with the cheapest access point
C6_Witness ==
    /\ Done
    /\ sqft = MinSqft /\ wifi_ap_cost = 500 /\ coverage = "Indoor Only"
    /\ ns.wifi_ap_count = 1
    /\ ns.p5g_vs_wifi.den = ns.wifi_total

\* ---------------------------------------------------------------- C7
\* C7: in every run the access point count is ceil(sqft/2500 *
\* coverageMultiplier), the Wi-Fi capex is apCount * apUnitCost, the opex is
\* capex * maintenance * years (linear) and the total is (capex + opex) *
\* slaMultiplier * growthMultiplier (times 1.10 when the latency is under
\* 10); for 500000 sqft, Indoor Only, 5 years, 1200 per access point, 18%
\* maintenance, 99.9%, no growth and latency >= 10 that is 200 access
\* points, capex 240000, opex 216000 and total 456000.
C7_WifiEndToEnd ==
    Done =>
        LET area == DecMul(DecDivInt(DecInt(sqft), 2500),
                           coverage_multiplier(coverage))
            plain == DecMul(DecAdd(ns.wifi_capex, ns.wifi_opex),
                            DecMul(sla_multiplier(sla),
                                   growth_multiplier(growth, years)))
        IN  /\ DecLeq(area, DecInt(ns.wifi_ap_count))
            /\ DecLt(DecInt(ns.wifi_ap_count - 1), area)
            /\ DecEq(ns.wifi_capex, DecInt(ns.wifi_ap_count * wifi_ap_cost))
            /\ DecEq(DecMul(ns.wifi_opex, DecInt(100)),
                     DecMul(ns.wifi_capex, DecInt(wifi_maint * years)))
            /\ latency >= 10 => DecEq(ns.wifi_total, plain)
            /\ latency < 10 => DecEq(ns.wifi_total, DecMul(plain, Dec(110, 2)))
            /\ ( /\ sqft = 500000 /\ coverage = "Indoor Only" /\ years = 5
                 /\ wifi_ap_cost = 1200 /\ wifi_maint = 18 /\ sla = "99.9%"
                 /\ growth = 0 /\ latency >= 10 )
               => /\ ns.wifi_ap_count = 200
                  /\ DecEq(ns.wifi_capex, DecInt(240000))
                  /\ DecEq(ns.wifi_opex, DecInt(216000))
                  /\ DecEq(ns.wifi_total, DecInt(456000))

C7_Witness ==
    /\ Done
    /\ sqft = 500000 /\ coverage = "Indoor Only" /\ years = 5
    /\ wifi_ap_cost = 1200 /\ wifi_maint = 18 /\ sla = "99.9%"
    /\ growth = 0 /\ latency >= 10
    /\ DecEq(ns.wifi_total, DecInt(456000))

\* ---------------------------------------------------------------- C8
\* C8: growth_multiplier(g, years) is non-decreasing in g and in years over
\* g in 0..30 and years in 0..10, is exactly 1 when g = 0 or years = 0, and
\* so is at least 1 on that domain.
C8_GrowthMonotone ==
    call.fn = "growth_multiplier" =>
        LET g == call.args[1]
            y == call.args[2]
        IN  /\ DecLeq(One, call.ret)
            /\ (g = 0 \/ y = 0) => DecEq(call.ret, One)
            /\ \A g2 \in g..MaxGrowth, y2 \in y..HorizonMax :
                  DecLeq(call.ret, growth_multiplier(g2, y2))

\* 1.3 ** 10 = 13.7858491849
C8_Witness ==
    /\ call.fn = "growth_multiplier"
    /\ call.args = <<MaxGrowth, HorizonMax>>
    /\ DecEq(call.ret, [neg |-> FALSE, m |-> <<1849, 5849, 1378>>, e |-> 10])

\* ---------------------------------------------------------------- C9
\* C9: for each architecture the cumulative trend of year y is capex + capex
\* * maintenance * y with the architecture's own maintenance accrual, so the
\* last point of each trend (y = years) is that architecture's capex + opex;
\* in particular the Hybrid trend ends at hyb_capex + hyb_opex.
C9_TrendEndsAtCost ==
    Done =>
        /\ DecEq(ns.wifi_trend[years], DecAdd(ns.wifi_capex, ns.wifi_opex))
        /\ DecEq(ns.p5g_trend[years], DecAdd(ns.p5g_capex, ns.p5g_opex))
        /\ DecEq(ns.hyb_trend[years], DecAdd(ns.hyb_capex, ns.hyb_opex))

\* --------------------------------------------------------------- C10
\* C10: in every run the Hybrid total is strictly greater than the smaller
\* of the Wi-Fi total and the 5G total, with or without the latency penalty.
C10_HybridNeverCheapest ==
    Done => DecLt(DecMin(ns.wifi_total, ns.p5g_total), ns.hyb_total)

\* a run, with the penalty, where the Hybrid undercuts Wi-Fi but not 5G
C10_Witness ==
    /\ Done
    /\ latency < LatencyLimit
    /\ DecLt(ns.p5g_total, ns.hyb_total)
    /\ DecLt(ns.hyb_total, ns.wifi_total)

====
